---------------------------- MODULE Spec2Model ----------------------------
(***************************************************************************)
(* A model of parallel_query_demo.py: the comparison of a standard         *)
(* cross-partition query with a query fanned out over the container's      *)
(* feed ranges.                                                            *)
(*                                                                         *)
(* The store (azure.cosmos) is the environment: every stream it returns    *)
(* (read_feed_ranges, query_items) is a finite stream that yields an item, *)
(* ends, or raises, one step at a time, chosen nondeterministically.       *)
(* The coroutines of the program are the processes: the main coroutine     *)
(* (compare_queries and the two query methods it awaits) and one task per  *)
(* feed range, interleaved at their await points.                          *)
(***************************************************************************)
EXTENDS Integers, Sequences, FiniteSets

(***************************************************************************)
(* Bounds of the model.                                                    *)
(***************************************************************************)
\* The most feed ranges one enumeration returns.
MaxRanges == 2

\* The most items one query stream yields.
MaxItems == 2

\* The longest elapsed time a timer measures, in ticks of the clock.
MaxElapsed == 1

(***************************************************************************)
(* Queries are sequences of characters.                                    *)
(***************************************************************************)
LowerAlpha ==
    <<"a", "b", "c", "d", "e", "f", "g", "h", "i", "j", "k", "l", "m",
      "n", "o", "p", "q", "r", "s", "t", "u", "v", "w", "x", "y", "z">>

UpperAlpha ==
    <<"A", "B", "C", "D", "E", "F", "G", "H", "I", "J", "K", "L", "M",
      "N", "O", "P", "Q", "R", "S", "T", "U", "V", "W", "X", "Y", "Z">>

Digits ==
    <<"0", "1", "2", "3", "4", "5", "6", "7", "8", "9">>

Range(s) == {s[i] : i \in DOMAIN s}

\* re.IGNORECASE: characters are compared after case folding.
Upper(c) ==
    IF \E i \in DOMAIN LowerAlpha : LowerAlpha[i] = c
      THEN UpperAlpha[CHOOSE i \in DOMAIN LowerAlpha : LowerAlpha[i] = c]
      ELSE c

\* \w of the pattern language: a letter, a digit or the underscore.
IsWord(c) == c \in Range(LowerAlpha) \cup Range(UpperAlpha) \cup Range(Digits) \cup {"_"}

\* \s of the pattern language.
IsSpace(c) == c \in {" ", "\t", "\n", "\r", "\f"}

\* \b before position i: exactly one of the two neighbours is a word character.
WordBoundary(q, i) ==
    LET before == i > 1 /\ IsWord(q[i - 1])
        after  == i <= Len(q) /\ IsWord(q[i])
    IN  before # after

\* The literal lit (in upper case) matches q at position i, case ignored.
LitAt(q, i, lit) ==
    /\ i >= 1
    /\ i + Len(lit) - 1 <= Len(q)
    /\ \A k \in 1..Len(lit) : Upper(q[i + k - 1]) = lit[k]

\* \s* from position i, greedy: the first position at or after i that holds no
\* white space (Len(q) + 1 when the white space runs to the end).
SkipSpaces(q, i) ==
    CHOOSE j \in i..(Len(q) + 1) :
        /\ \A k \in i..(j - 1) : IsSpace(q[k])
        /\ j = Len(q) + 1 \/ ~IsSpace(q[j])

KW_SELECT == <<"S", "E", "L", "E", "C", "T">>
KW_VALUE  == <<"V", "A", "L", "U", "E">>
KW_COUNT  == <<"C", "O", "U", "N", "T">>
KW_SUM    == <<"S", "U", "M">>

\* The alternation (COUNT|SUM) of the pattern.
AggregateFunctions == {KW_COUNT, KW_SUM}

\* _AGGREGATE_PATTERN matched at position i of q:
\*   \bSELECT\s+VALUE\s+(COUNT|SUM)\s*\(
AGGREGATE_PATTERN(q, i) ==
    /\ WordBoundary(q, i)
    /\ LitAt(q, i, KW_SELECT)
    /\ LET a == i + Len(KW_SELECT)
           b == SkipSpaces(q, a)
       IN  /\ b > a
           /\ LitAt(q, b, KW_VALUE)
           /\ LET c == b + Len(KW_VALUE)
                  d == SkipSpaces(q, c)
              IN  /\ d > c
                  /\ \E f \in AggregateFunctions :
                        /\ LitAt(q, d, f)
                        /\ LitAt(q, SkipSpaces(q, d + Len(f)), <<"(">>)

\* is_aggregate_query: _AGGREGATE_PATTERN.search(query), a match anywhere.
is_aggregate_query(q) == \E i \in 1..Len(q) : AGGREGATE_PATTERN(q, i)


Q_SUM ==
    <<"S", "E", "L", "E", "C", "T", " ", "V", "A", "L", "U", "E", " ",
      "S", "U", "M", "(", "c", ".", "x", ")", " ", "F", "R", "O", "M", " ", "c">>

Q_STAR ==
    <<"S", "E", "L", "E", "C", "T", " ", "*", " ", "F", "R", "O", "M", " ", "c">>

Q_MAX ==
    <<"S", "E", "L", "E", "C", "T", " ", "V", "A", "L", "U", "E", " ",
      "M", "A", "X", "(", "c", ".", "x", ")", " ", "F", "R", "O", "M", " ", "c">>

\* The queries a comparison run is given: a SUM, which the classifier takes
\* for an aggregate, and two it takes for plain.
RunQueries == {Q_SUM, Q_STAR, Q_MAX}

(***************************************************************************)
(* Items and results.  A number is held in fixed point, val / Scale, so    *)
(* that a float with a fractional part is a value the model can hold.      *)
(***************************************************************************)
\* The denominator of the fixed-point numbers: val = 3 is 1.5.
Scale == 2

Num(v) == [kind |-> "num", val |-> v]

\* An item that is no number: a document.
Doc == [kind |-> "doc", val |-> 0]

\* isinstance(value, (int, float))
IsNumber(item) == item.kind = "num"

\* int(value): the integer part, truncated towards zero.
IntOf(v) == IF v >= 0 THEN v \div Scale ELSE -((-v) \div Scale)

\* The numbers a range-scoped stream yields: 1 and 1.5.
RangeNums == {Scale, Scale + 1}

\* The items a range-scoped stream yields.
RangeItems == {Num(v) : v \in RangeNums} \cup {Doc}

RECURSIVE SumsOf(_)
\* The sums of at most k numbers of a range-scoped stream.
SumsOf(k) ==
    IF k = 0 THEN {0}
    ELSE {a + b : a \in SumsOf(k - 1), b \in RangeNums \cup {0}}

\* The sums of the numbers of up to MaxRanges ranges, as items.
SumItems == {Num(v) : v \in SumsOf(MaxRanges)}

\* The items the stream of query q on the whole store yields: those of the
\* ranges and, for a SUM, which the store adds up over its ranges, the sums
\* of the ranges' numbers.
WholeItems(q) == IF q = Q_SUM THEN RangeItems \cup SumItems ELSE RangeItems

NoResult == [kind |-> "none", val |-> 0, items |-> <<>>]
IntResult(n) == [kind |-> "int", val |-> n, items |-> <<>>]
ListResult(s) == [kind |-> "list", val |-> 0, items |-> s]

\* StandardResult without its test of is_aggregate_query: a lone number is
\* turned into an int whatever the query.
StandardResultUnclassified(q, items) ==
    IF Len(items) = 1 /\ IsNumber(items[1])
      THEN IntResult(IntOf(items[1].val))
      ELSE ListResult(items)

\* What standard_cross_partition_query returns for the items it collected.
StandardResult(q, items) ==
    IF is_aggregate_query(q) /\ Len(items) = 1 /\ IsNumber(items[1])
      THEN IntResult(IntOf(items[1].val))
      ELSE ListResult(items)

RECURSIVE PartitionTotal(_)
\* The inner loop of the aggregate merge over one partition's results:
\* total += int(value) for every value that is a number.
PartitionTotal(partition_results) ==
    IF partition_results = <<>> THEN 0
    ELSE (IF IsNumber(Head(partition_results))
            THEN IntOf(Head(partition_results).val)
            ELSE 0)
         + PartitionTotal(Tail(partition_results))

\* Extend as an assignment: all_items = partition_results.
ExtendOverwrite(all_items, partition_results) == partition_results

\* all_items.extend(partition_results)
Extend(all_items, partition_results) == all_items \o partition_results

\* A partition task: a query_feed_range coroutine wrapped by gather.
IdleTask == [st |-> "idle", items |-> <<>>]

\* GatherDone with a raised task counted as finished (return_exceptions).
GatherDoneIgnoringFailures(t, n) == \A r \in 1..n : t[r].st \in {"done", "failed"}

\* GatherDone as a wait for the first task to return (FIRST_COMPLETED).
GatherAnyDone(t, n) == \E r \in 1..n : t[r].st = "done"

\* asyncio.gather returns once every task has returned.
GatherDone(t, n) == \A r \in 1..n : t[r].st = "done"

\* GatherFailed for a gather that waits for the tasks that have not raised
\* and never raises itself.
GatherNeverRaises(t, n) == FALSE

\* asyncio.gather raises as soon as one task has raised.
GatherFailed(t, n) == \E r \in 1..n : t[r].st = "failed"

\* GatherResults with the lists in the reverse of the tasks' order.
GatherResultsReversed(t, n) == [r \in 1..n |-> t[n + 1 - r].items]

\* What asyncio.gather returns: the tasks' lists, in the order the tasks were
\* passed to it.
GatherResults(t, n) == [r \in 1..n |-> t[r].items]

(***************************************************************************)
(* The state.                                                              *)
(***************************************************************************)
VARIABLES
    query,            \* the query of the run
    pc,               \* where the main coroutine stands
    client,           \* self.client: "none", "open" or "closed"
    aggregate,        \* compare_queries' aggregate
    cq_feed_ranges,   \* compare_queries' feed_ranges
    enum_open,        \* a read_feed_ranges stream is being drained
    whole_open,       \* the whole-store query's stream is being drained
    std_items,        \* standard_cross_partition_query's items
    std_timer,        \* its timer: "idle", "running" or "stopped"
    standard_result,  \* what it returned
    standard_time,    \* the elapsed time it returned
    par_aggregate,    \* parallelized_cross_partition_query's aggregate
    feed_ranges,      \* its feed_ranges
    par_timer,        \* its timer: "idle", "running" or "stopped"
    task,             \* the partition tasks: state and items of each
    results,          \* what gather returned
    merge_i,          \* the partitions merged so far
    total,            \* the aggregate merge's total
    all_items,        \* the plain merge's all_items
    parallel_result,  \* what parallelized_cross_partition_query returned
    parallel_time,    \* the elapsed time it returned
    results_match     \* the report's comparison: "none", "match", "differ", "skipped"

vars ==
    <<query, pc, client, aggregate, cq_feed_ranges, enum_open, whole_open,
      std_items, std_timer, standard_result, feed_ranges, par_timer, task,
      results, merge_i, total, all_items, parallel_result, results_match,
      standard_time, parallel_time, par_aggregate>>

\* The state of the main coroutine's locals before any of them is assigned.
Fresh ==
    /\ aggregate = FALSE
    /\ cq_feed_ranges = <<>>
    /\ enum_open = FALSE
    /\ whole_open = FALSE
    /\ std_items = <<>>
    /\ std_timer = "idle"
    /\ standard_result = NoResult
    /\ feed_ranges = <<>>
    /\ par_timer = "idle"
    /\ task = [r \in 1..MaxRanges |-> IdleTask]
    /\ results = <<>>
    /\ merge_i = 0
    /\ total = 0
    /\ all_items = <<>>
    /\ parallel_result = NoResult
    /\ results_match = "none"
    /\ standard_time = 0
    /\ parallel_time = 0
    /\ par_aggregate = FALSE

\* CosmosQueryComparison.__init__: no client yet.
Init ==
    /\ query \in RunQueries
    /\ pc = "aenter"
    /\ client = "none"
    /\ Fresh

(***************************************************************************)
(* The main coroutine: main, compare_queries and the methods it awaits.    *)
(***************************************************************************)
\* __aenter__: the client is created and compare_queries is entered.
AEnter ==
    /\ pc = "aenter"
    /\ client' = "open"
    /\ pc' = "cq_classify"
    /\ UNCHANGED <<query, aggregate, cq_feed_ranges, enum_open, whole_open,
                   std_items, std_timer, standard_result, feed_ranges,
                   par_timer, task, results, merge_i, total, all_items,
                   parallel_result, results_match>>
    /\ UNCHANGED <<standard_time, parallel_time, par_aggregate>>

\* compare_queries: aggregate = is_aggregate_query(query), then the call of
\* read_feed_ranges.
CqClassify ==
    /\ pc = "cq_classify"
    /\ aggregate' = is_aggregate_query(query)
    /\ enum_open' = TRUE
    /\ pc' = "cq_enum"
    /\ UNCHANGED <<query, client, cq_feed_ranges, whole_open, std_items,
                   std_timer, standard_result, feed_ranges, par_timer, task,
                   results, merge_i, total, all_items, parallel_result,
                   results_match>>
    /\ UNCHANGED <<standard_time, parallel_time, par_aggregate>>

\* compare_queries' enumeration yields one more feed range.
CqEnumYield ==
    /\ pc = "cq_enum"
    /\ Len(cq_feed_ranges) < MaxRanges
    /\ cq_feed_ranges' = Append(cq_feed_ranges, Len(cq_feed_ranges) + 1)
    /\ UNCHANGED <<query, pc, client, aggregate, enum_open, whole_open,
                   std_items, std_timer, standard_result, feed_ranges,
                   par_timer, task, results, merge_i, total, all_items,
                   parallel_result, results_match>>
    /\ UNCHANGED <<standard_time, parallel_time, par_aggregate>>

\* compare_queries' enumeration ends: the count is printed and
\* standard_cross_partition_query is called.
CqEnumEnd ==
    /\ pc = "cq_enum"
    /\ enum_open' = FALSE
    /\ pc' = "std_start"
    /\ UNCHANGED <<query, client, aggregate, cq_feed_ranges, whole_open,
                   std_items, std_timer, standard_result, feed_ranges,
                   par_timer, task, results, merge_i, total, all_items,
                   parallel_result, results_match>>
    /\ UNCHANGED <<standard_time, parallel_time, par_aggregate>>

\* CqEnumFail with a retry: read_feed_ranges is called again and the ranges
\* are collected anew.
CqEnumFailRetry ==
    /\ pc = "cq_enum"
    /\ cq_feed_ranges' = <<>>
    /\ enum_open' = TRUE
    /\ UNCHANGED <<query, pc, client, aggregate, whole_open, std_items,
                   std_timer, standard_result, feed_ranges, par_timer, task,
                   results, merge_i, total, all_items, parallel_result,
                   results_match>>
    /\ UNCHANGED <<standard_time, parallel_time, par_aggregate>>

\* compare_queries' enumeration raises: the error leaves compare_queries.
CqEnumFail ==
    /\ pc = "cq_enum"
    /\ enum_open' = FALSE
    /\ pc' = "failed"
    /\ UNCHANGED <<query, client, aggregate, cq_feed_ranges, whole_open,
                   std_items, std_timer, standard_result, feed_ranges,
                   par_timer, task, results, merge_i, total, all_items,
                   parallel_result, results_match>>
    /\ UNCHANGED <<standard_time, parallel_time, par_aggregate>>

\* StdStart with the query left running as a task of its own, not awaited.
StdStartDetached ==
    /\ pc = "std_start"
    /\ std_items' = <<>>
    /\ std_timer' = "running"
    /\ whole_open' = TRUE
    /\ pc' = "par_call"
    /\ UNCHANGED <<query, client, aggregate, cq_feed_ranges, enum_open,
                   standard_result, feed_ranges, par_timer, task, results,
                   merge_i, total, all_items, parallel_result, results_match>>
    /\ UNCHANGED <<standard_time, parallel_time, par_aggregate>>

\* standard_cross_partition_query: items = [], the timer starts, the query is
\* issued on the whole store.
StdStart ==
    /\ pc = "std_start"
    /\ std_items' = <<>>
    /\ std_timer' = "running"
    /\ whole_open' = TRUE
    /\ pc' = "std_query"
    /\ UNCHANGED <<query, client, aggregate, cq_feed_ranges, enum_open,
                   standard_result, feed_ranges, par_timer, task, results,
                   merge_i, total, all_items, parallel_result, results_match>>
    /\ UNCHANGED <<standard_time, parallel_time, par_aggregate>>

\* The whole-store stream yields an item: items.append(item).
StdYield(item) ==
    /\ pc = "std_query"
    /\ Len(std_items) < MaxItems
    /\ std_items' = Append(std_items, item)
    /\ UNCHANGED <<query, pc, client, aggregate, cq_feed_ranges, enum_open,
                   whole_open, std_timer, standard_result, feed_ranges,
                   par_timer, task, results, merge_i, total, all_items,
                   parallel_result, results_match>>
    /\ UNCHANGED <<standard_time, parallel_time, par_aggregate>>

\* The whole-store stream is exhausted.
StdEnd ==
    /\ pc = "std_query"
    /\ whole_open' = FALSE
    /\ pc' = "std_stop"
    /\ UNCHANGED <<query, client, aggregate, cq_feed_ranges, enum_open,
                   std_items, std_timer, standard_result, feed_ranges,
                   par_timer, task, results, merge_i, total, all_items,
                   parallel_result, results_match>>
    /\ UNCHANGED <<standard_time, parallel_time, par_aggregate>>

\* The whole-store stream raises: the error leaves compare_queries.
StdFail ==
    /\ pc = "std_query"
    /\ whole_open' = FALSE
    /\ pc' = "failed"
    /\ UNCHANGED <<query, client, aggregate, cq_feed_ranges, enum_open,
                   std_items, std_timer, standard_result, feed_ranges,
                   par_timer, task, results, merge_i, total, all_items,
                   parallel_result, results_match>>
    /\ UNCHANGED <<standard_time, parallel_time, par_aggregate>>

\* standard_cross_partition_query: the timer is read and the result returned.
StdReturn ==
    /\ pc = "std_stop"
    /\ std_timer' = "stopped"
    /\ standard_result' = StandardResult(query, std_items)
    /\ pc' = "cq_print_std"
    /\ UNCHANGED <<query, client, aggregate, cq_feed_ranges, enum_open,
                   whole_open, std_items, feed_ranges, par_timer, task,
                   results, merge_i, total, all_items, parallel_result,
                   results_match>>
    /\ standard_time' \in 0..MaxElapsed
    /\ UNCHANGED <<parallel_time, par_aggregate>>

\* compare_queries prints the standard result: f"{standard_result:,}" for an
\* aggregate, which raises TypeError for a list; len(standard_result) for
\* the others.  Then parallelized_cross_partition_query is called.
CqPrintStandard ==
    /\ pc = "cq_print_std"
    /\ pc' = IF aggregate /\ standard_result.kind # "int"
               THEN "failed"
               ELSE "par_call"
    /\ UNCHANGED <<query, client, aggregate, cq_feed_ranges, enum_open,
                   whole_open, std_items, std_timer, standard_result,
                   feed_ranges, par_timer, task, results, merge_i, total,
                   all_items, parallel_result, results_match>>
    /\ UNCHANGED <<standard_time, parallel_time, par_aggregate>>

\* ParEnter with start_time taken before read_feed_ranges is called.
ParEnterTimed ==
    /\ pc = "par_call"
    /\ par_aggregate' = is_aggregate_query(query)
    /\ enum_open' = TRUE
    /\ par_timer' = "running"
    /\ pc' = "par_enum"
    /\ UNCHANGED <<query, client, aggregate, cq_feed_ranges, whole_open,
                   std_items, std_timer, standard_result, feed_ranges,
                   task, results, merge_i, total, all_items,
                   parallel_result, results_match>>
    /\ UNCHANGED <<standard_time, parallel_time>>

\* parallelized_cross_partition_query: aggregate = is_aggregate_query(query),
\* then the call of read_feed_ranges.
ParEnter ==
    /\ pc = "par_call"
    /\ par_aggregate' = is_aggregate_query(query)
    /\ enum_open' = TRUE
    /\ pc' = "par_enum"
    /\ UNCHANGED <<query, client, aggregate, cq_feed_ranges, whole_open,
                   std_items, std_timer, standard_result, feed_ranges,
                   par_timer, task, results, merge_i, total, all_items,
                   parallel_result, results_match>>
    /\ UNCHANGED <<standard_time, parallel_time>>

\* Its enumeration yields one more feed range.
ParEnumYield ==
    /\ pc = "par_enum"
    /\ Len(feed_ranges) < MaxRanges
    /\ feed_ranges' = Append(feed_ranges, Len(feed_ranges) + 1)
    /\ UNCHANGED <<query, pc, client, aggregate, cq_feed_ranges, enum_open,
                   whole_open, std_items, std_timer, standard_result,
                   par_timer, task, results, merge_i, total, all_items,
                   parallel_result, results_match>>
    /\ UNCHANGED <<standard_time, parallel_time, par_aggregate>>

\* Its enumeration ends.
ParEnumEnd ==
    /\ pc = "par_enum"
    /\ enum_open' = FALSE
    /\ pc' = "par_start"
    /\ UNCHANGED <<query, client, aggregate, cq_feed_ranges, whole_open,
                   std_items, std_timer, standard_result, feed_ranges,
                   par_timer, task, results, merge_i, total, all_items,
                   parallel_result, results_match>>
    /\ UNCHANGED <<standard_time, parallel_time, par_aggregate>>

\* Its enumeration raises: the error leaves compare_queries.
ParEnumFail ==
    /\ pc = "par_enum"
    /\ enum_open' = FALSE
    /\ pc' = "failed"
    /\ UNCHANGED <<query, client, aggregate, cq_feed_ranges, whole_open,
                   std_items, std_timer, standard_result, feed_ranges,
                   par_timer, task, results, merge_i, total, all_items,
                   parallel_result, results_match>>
    /\ UNCHANGED <<standard_time, parallel_time, par_aggregate>>

\* ParLaunch with the coroutines awaited one after the other: only the first
\* range's query is started.
ParLaunchFirstOnly ==
    /\ pc = "par_start"
    /\ par_timer' = "running"
    /\ task' = [r \in 1..MaxRanges |->
                  IF r <= Len(feed_ranges) /\ r = 1
                    THEN [st |-> "running", items |-> <<>>]
                    ELSE IdleTask]
    /\ pc' = "par_gather"
    /\ UNCHANGED <<query, client, aggregate, cq_feed_ranges, enum_open,
                   whole_open, std_items, std_timer, standard_result,
                   feed_ranges, results, merge_i, total, all_items,
                   parallel_result, results_match>>
    /\ UNCHANGED <<standard_time, parallel_time, par_aggregate>>

\* ParLaunch with a coroutine created for every range the store may have,
\* whatever the enumeration returned.
ParLaunchEveryRange ==
    /\ pc = "par_start"
    /\ par_timer' = "running"
    /\ task' = [r \in 1..MaxRanges |-> [st |-> "running", items |-> <<>>]]
    /\ pc' = "par_gather"
    /\ UNCHANGED <<query, client, aggregate, cq_feed_ranges, enum_open,
                   whole_open, std_items, std_timer, standard_result,
                   feed_ranges, results, merge_i, total, all_items,
                   parallel_result, results_match>>
    /\ UNCHANGED <<standard_time, parallel_time, par_aggregate>>

\* The timer starts, one query_feed_range coroutine is created per feed range
\* and gather schedules them all.
ParLaunch ==
    /\ pc = "par_start"
    /\ par_timer' = "running"
    /\ task' = [r \in 1..MaxRanges |->
                  IF r <= Len(feed_ranges)
                    THEN [st |-> "running", items |-> <<>>]
                    ELSE IdleTask]
    /\ pc' = "par_gather"
    /\ UNCHANGED <<query, client, aggregate, cq_feed_ranges, enum_open,
                   whole_open, std_items, std_timer, standard_result,
                   feed_ranges, results, merge_i, total, all_items,
                   parallel_result, results_match>>
    /\ UNCHANGED <<standard_time, parallel_time, par_aggregate>>

\* await asyncio.gather(*tasks) returns the tasks' lists, in the tasks' order.
GatherReturn ==
    /\ pc = "par_gather"
    /\ GatherDone(task, Len(feed_ranges))
    /\ results' = GatherResults(task, Len(feed_ranges))
    /\ pc' = "par_stop"
    /\ UNCHANGED <<query, client, aggregate, cq_feed_ranges, enum_open,
                   whole_open, std_items, std_timer, standard_result,
                   feed_ranges, par_timer, task, merge_i, total, all_items,
                   parallel_result, results_match>>
    /\ UNCHANGED <<standard_time, parallel_time, par_aggregate>>

\* await asyncio.gather(*tasks) raises a task's error, which leaves
\* compare_queries; the other tasks are not cancelled.
GatherRaise ==
    /\ pc = "par_gather"
    /\ GatherFailed(task, Len(feed_ranges))
    /\ pc' = "failed"
    /\ UNCHANGED <<query, client, aggregate, cq_feed_ranges, enum_open,
                   whole_open, std_items, std_timer, standard_result,
                   feed_ranges, par_timer, task, results, merge_i, total,
                   all_items, parallel_result, results_match>>
    /\ UNCHANGED <<standard_time, parallel_time, par_aggregate>>

\* ParStopTimer with the reading of the timer left for after the merge.
ParStopTimerLate ==
    /\ pc = "par_stop"
    /\ total' = 0
    /\ all_items' = <<>>
    /\ merge_i' = 0
    /\ pc' = "par_merge"
    /\ UNCHANGED <<query, client, aggregate, cq_feed_ranges, enum_open,
                   whole_open, std_items, std_timer, standard_result,
                   feed_ranges, par_timer, task, results, parallel_result,
                   results_match>>
    /\ UNCHANGED <<standard_time, parallel_time, par_aggregate>>

\* elapsed_time = time.time() - start_time
ParStopTimer ==
    /\ pc = "par_stop"
    /\ par_timer' = "stopped"
    /\ total' = 0
    /\ all_items' = <<>>
    /\ merge_i' = 0
    /\ pc' = "par_merge"
    /\ UNCHANGED <<query, client, aggregate, cq_feed_ranges, enum_open,
                   whole_open, std_items, std_timer, standard_result,
                   feed_ranges, task, results, parallel_result,
                   results_match>>
    /\ parallel_time' \in 0..MaxElapsed
    /\ UNCHANGED <<standard_time, par_aggregate>>

\* One turn of the merge's loop over results: the next partition's numbers
\* are added to total (aggregate) or its items appended to all_items.
ParMergeStep ==
    /\ pc = "par_merge"
    /\ merge_i < Len(results)
    /\ merge_i' = merge_i + 1
    /\ IF par_aggregate
         THEN /\ total' = total + PartitionTotal(results[merge_i + 1])
              /\ UNCHANGED all_items
         ELSE /\ all_items' = Extend(all_items, results[merge_i + 1])
              /\ UNCHANGED total
    /\ UNCHANGED <<query, pc, client, aggregate, cq_feed_ranges, enum_open,
                   whole_open, std_items, std_timer, standard_result,
                   feed_ranges, par_timer, task, results, parallel_result,
                   results_match>>
    /\ UNCHANGED <<standard_time, parallel_time, par_aggregate>>

\* The merge's loop is over: total or all_items is returned.
ParReturn ==
    /\ pc = "par_merge"
    /\ merge_i = Len(results)
    /\ parallel_result' = IF par_aggregate
                            THEN IntResult(total)
                            ELSE ListResult(all_items)
    /\ pc' = "cq_report"
    /\ UNCHANGED <<query, client, aggregate, cq_feed_ranges, enum_open,
                   whole_open, std_items, std_timer, standard_result,
                   feed_ranges, par_timer, task, results, merge_i, total,
                   all_items, results_match>>
    /\ UNCHANGED <<standard_time, parallel_time, par_aggregate>>

\* compare_queries prints the parallel result and the times, computes the
\* speedup and the improvement when parallel_time > 0 (the latter divides by
\* standard_time and raises ZeroDivisionError when that is 0), and, for an
\* aggregate, prints "Results match" when the two results are equal.
CqReport ==
    /\ pc = "cq_report"
    /\ IF parallel_time > 0 /\ standard_time = 0
         THEN /\ pc' = "failed"
              /\ UNCHANGED results_match
         ELSE /\ pc' = "done"
              /\ results_match' = IF aggregate
                                    THEN (IF standard_result = parallel_result
                                            THEN "match" ELSE "differ")
                                    ELSE "skipped"
    /\ UNCHANGED <<query, client, aggregate, cq_feed_ranges, enum_open,
                   whole_open, std_items, std_timer, standard_result,
                   feed_ranges, par_timer, task, results, merge_i, total,
                   all_items, parallel_result>>
    /\ UNCHANGED <<standard_time, parallel_time, par_aggregate>>

\* __aexit__, on the return of compare_queries or on its error: the client
\* is closed.
AExit ==
    /\ pc \in {"done", "failed"}
    /\ client' = "closed"
    /\ pc' = IF pc = "done" THEN "exit_ok" ELSE "exit_error"
    /\ UNCHANGED <<query, aggregate, cq_feed_ranges, enum_open, whole_open,
                   std_items, std_timer, standard_result, feed_ranges,
                   par_timer, task, results, merge_i, total, all_items,
                   parallel_result, results_match>>
    /\ UNCHANGED <<standard_time, parallel_time, par_aggregate>>

\* asyncio.run, main having returned or raised: the tasks still running are
\* cancelled and the event loop is closed.
RunShutdown ==
    /\ pc \in {"exit_ok", "exit_error"}
    /\ task' = [r \in 1..MaxRanges |->
                  IF task[r].st = "running"
                    THEN [st |-> "cancelled", items |-> <<>>]
                    ELSE task[r]]
    /\ pc' = IF pc = "exit_ok" THEN "stopped_ok" ELSE "stopped_error"
    /\ UNCHANGED <<query, client, aggregate, cq_feed_ranges, enum_open,
                   whole_open, std_items, std_timer, standard_result,
                   feed_ranges, par_timer, results, merge_i, total,
                   all_items, parallel_result, results_match>>
    /\ UNCHANGED <<standard_time, parallel_time, par_aggregate>>

(***************************************************************************)
(* The partition tasks: query_feed_range, one per feed range.              *)
(***************************************************************************)
\* The stream of range r yields an item: items.append(item).
TaskYield(r, item) ==
    /\ task[r].st = "running"
    /\ Len(task[r].items) < MaxItems
    /\ task' = [task EXCEPT ![r].items = Append(@, item)]
    /\ UNCHANGED <<query, pc, client, aggregate, cq_feed_ranges, enum_open,
                   whole_open, std_items, std_timer, standard_result,
                   feed_ranges, par_timer, results, merge_i, total,
                   all_items, parallel_result, results_match>>
    /\ UNCHANGED <<standard_time, parallel_time, par_aggregate>>

\* The stream of range r is exhausted: the task returns its items.
TaskEnd(r) ==
    /\ task[r].st = "running"
    /\ task' = [task EXCEPT ![r].st = "done"]
    /\ UNCHANGED <<query, pc, client, aggregate, cq_feed_ranges, enum_open,
                   whole_open, std_items, std_timer, standard_result,
                   feed_ranges, par_timer, results, merge_i, total,
                   all_items, parallel_result, results_match>>
    /\ UNCHANGED <<standard_time, parallel_time, par_aggregate>>

\* TaskFail with a retry: the query of range r is issued again from the start.
TaskFailRetry(r) ==
    /\ task[r].st = "running"
    /\ task' = [task EXCEPT ![r] = [st |-> "running", items |-> <<>>]]
    /\ UNCHANGED <<query, pc, client, aggregate, cq_feed_ranges, enum_open,
                   whole_open, std_items, std_timer, standard_result,
                   feed_ranges, par_timer, results, merge_i, total,
                   all_items, parallel_result, results_match>>
    /\ UNCHANGED <<standard_time, parallel_time, par_aggregate>>

\* The stream of range r raises: the task ends with the error, its items lost.
TaskFail(r) ==
    /\ task[r].st = "running"
    /\ task' = [task EXCEPT ![r] = [st |-> "failed", items |-> <<>>]]
    /\ UNCHANGED <<query, pc, client, aggregate, cq_feed_ranges, enum_open,
                   whole_open, std_items, std_timer, standard_result,
                   feed_ranges, par_timer, results, merge_i, total,
                   all_items, parallel_result, results_match>>
    /\ UNCHANGED <<standard_time, parallel_time, par_aggregate>>

Next ==
    \/ AEnter
    \/ CqClassify
    \/ CqEnumYield
    \/ CqEnumEnd
    \/ CqEnumFail
    \/ StdStart
    \/ \E item \in WholeItems(query) : StdYield(item)
    \/ StdEnd
    \/ StdFail
    \/ StdReturn
    \/ CqPrintStandard
    \/ ParEnter
    \/ ParEnumYield
    \/ ParEnumEnd
    \/ ParEnumFail
    \/ ParLaunch
    \/ GatherReturn
    \/ GatherRaise
    \/ ParStopTimer
    \/ ParMergeStep
    \/ ParReturn
    \/ CqReport
    \/ AExit
    \/ RunShutdown
    \/ \E r \in 1..MaxRanges : \E item \in RangeItems : TaskYield(r, item)
    \/ \E r \in 1..MaxRanges : TaskEnd(r)
    \/ \E r \in 1..MaxRanges : TaskFail(r)

Spec == Init /\ [][Next]_vars

(***************************************************************************)
(* The run under fair scheduling: the event loop resumes the main          *)
(* coroutine whenever it can go on, and every partition task whenever its  *)
(* stream has answered; the store answers every call (an item, the end of  *)
(* the stream or an error) and its streams are finite.  What a stream      *)
(* delivers bears on the run's course only by being a number or not, so    *)
(* the streams here deliver one number or a document.                      *)
(***************************************************************************)
\* The items a stream yields: 1 and a document.
FairItems == {Num(Scale), Doc}

\* A step of the main coroutine.
MainNext ==
    \/ AEnter
    \/ CqClassify
    \/ CqEnumYield
    \/ CqEnumEnd
    \/ CqEnumFail
    \/ StdStart
    \/ \E item \in FairItems : StdYield(item)
    \/ StdEnd
    \/ StdFail
    \/ StdReturn
    \/ CqPrintStandard
    \/ ParEnter
    \/ ParEnumYield
    \/ ParEnumEnd
    \/ ParEnumFail
    \/ ParLaunch
    \/ GatherReturn
    \/ GatherRaise
    \/ ParStopTimer
    \/ ParMergeStep
    \/ ParReturn
    \/ CqReport
    \/ AExit
    \/ RunShutdown

\* A step of the task of range r.
TaskNext(r) ==
    \/ \E item \in FairItems : TaskYield(r, item)
    \/ TaskEnd(r)
    \/ TaskFail(r)

NextFair ==
    \/ MainNext
    \/ \E r \in 1..MaxRanges : TaskNext(r)

SpecFair ==
    /\ Init
    /\ [][NextFair]_vars
    /\ WF_vars(MainNext)
    /\ \A r \in 1..MaxRanges : WF_vars(TaskNext(r))

(***************************************************************************)
(* parallelized_cross_partition_query on its own: the method called on an  *)
(* open client, up to its return or its error.                             *)
(***************************************************************************)
InitParallel ==
    /\ query \in {Q_SUM, Q_STAR}
    /\ pc = "par_call"
    /\ client = "open"
    /\ Fresh

NextParallel ==
    \/ ParEnter
    \/ ParEnumYield
    \/ ParEnumEnd
    \/ ParEnumFail
    \/ ParLaunch
    \/ GatherReturn
    \/ GatherRaise
    \/ ParStopTimer
    \/ ParMergeStep
    \/ ParReturn
    \/ \E r \in 1..MaxRanges : \E item \in RangeItems : TaskYield(r, item)
    \/ \E r \in 1..MaxRanges : TaskEnd(r)
    \/ \E r \in 1..MaxRanges : TaskFail(r)

SpecParallel == InitParallel /\ [][NextParallel]_vars

(***************************************************************************)
(* The two query methods, each on its own: one of them called on an open   *)
(* client, up to its return or its error.                                  *)
(***************************************************************************)
InitMethods ==
    /\ query \in {Q_SUM, Q_STAR}
    /\ pc \in {"std_start", "par_call"}
    /\ client = "open"
    /\ Fresh

NextMethods ==
    \/ StdStart
    \/ \E item \in WholeItems(query) : StdYield(item)
    \/ StdEnd
    \/ StdFail
    \/ StdReturn
    \/ ParEnter
    \/ ParEnumYield
    \/ ParEnumEnd
    \/ ParEnumFail
    \/ ParLaunch
    \/ GatherReturn
    \/ GatherRaise
    \/ ParStopTimer
    \/ ParMergeStep
    \/ ParReturn
    \/ \E r \in 1..MaxRanges : \E item \in RangeItems : TaskYield(r, item)
    \/ \E r \in 1..MaxRanges : TaskEnd(r)
    \/ \E r \in 1..MaxRanges : TaskFail(r)

SpecMethods == InitMethods /\ [][NextMethods]_vars

(***************************************************************************)
(* The classifier on its own: compare_queries' first statement, for a      *)
(* family of queries built from the parts below.                           *)
(***************************************************************************)
KW_GROUP == <<"G", "R", "O", "U", "P">>
KW_BY    == <<"B", "Y">>

QueryPrefixes == {<<>>, <<"x">>, <<"(">>}

QuerySelects == {KW_SELECT, <<"s", "e", "l", "e", "c", "t">>}

QueryGaps == {<<>>, <<" ">>, <<"\t", "\n">>}

QueryValues == {KW_VALUE, <<"V", "a", "l", "u", "e">>, <<>>}

QueryFunctions ==
    {KW_COUNT, <<"c", "o", "u", "n", "t">>, KW_SUM,
     <<"A", "V", "G">>, <<"M", "I", "N">>, <<"M", "A", "X">>}

QueryTails ==
    {<<"(", "1", ")", " ", "F", "R", "O", "M", " ", "c">>,
     <<"(", "1", ")", " ", "F", "R", "O", "M", " ", "c", " ",
       "G", "R", "O", "U", "P", " ", "B", "Y", " ", "c", ".", "t">>,
     <<"(", "1", ")", " ", "f", "r", "o", "m", " ", "c", " ",
       "g", "r", "o", "u", "p", " ", "b", "y", " ", "c", ".", "t">>}

ClassifierQueries ==
    {p \o s \o g1 \o v \o g2 \o f \o g3 \o t :
        p \in QueryPrefixes, s \in QuerySelects, g1 \in QueryGaps,
        v \in QueryValues, g2 \in {<<>>, <<" ">>}, f \in QueryFunctions,
        g3 \in {<<>>, <<" ">>}, t \in QueryTails}

InitClassify ==
    /\ query \in ClassifierQueries
    /\ pc = "cq_classify"
    /\ client = "open"
    /\ Fresh

NextClassify == CqClassify

SpecClassify == InitClassify /\ [][NextClassify]_vars

(***************************************************************************)
(* Definitions the properties are stated with.                             *)
(***************************************************************************)
\* The partition tasks gather was given.
Launched == 1..Len(feed_ranges)

AllTasksDone == \A r \in Launched : task[r].st = "done"

\* How often x occurs in s.
Count(s, x) == Cardinality({i \in DOMAIN s : s[i] = x})

RECURSIVE CountInTasks(_, _)
\* How often x occurs in the items of the tasks 1..n.
CountInTasks(n, x) ==
    IF n = 0 THEN 0 ELSE Count(task[n].items, x) + CountInTasks(n - 1, x)

RECURSIVE ItemsInTasks(_)
\* How many items the tasks 1..n collected.
ItemsInTasks(n) ==
    IF n = 0 THEN 0 ELSE Len(task[n].items) + ItemsInTasks(n - 1)

\* s and t hold the same items, each as often: equal as multisets.
SameBag(s, t) ==
    /\ Len(s) = Len(t)
    /\ \A i \in DOMAIN s : Count(s, s[i]) = Count(t, s[i])

RECURSIVE IsSubseq(_, _)
\* s is t with some items left out: the items of s occur in t in s's order.
IsSubseq(s, t) ==
    IF s = <<>> THEN TRUE
    ELSE IF t = <<>> THEN FALSE
    ELSE IF Head(s) = Head(t) THEN IsSubseq(Tail(s), Tail(t))
    ELSE IsSubseq(s, Tail(t))

RECURSIVE ExactSum(_)
\* The sum of the numbers of s, in fixed point (no rounding).
ExactSum(s) ==
    IF s = <<>> THEN 0
    ELSE (IF IsNumber(Head(s)) THEN Head(s).val ELSE 0) + ExactSum(Tail(s))

RECURSIVE ExactSumOfTasks(_)
\* The sum of the numbers the tasks 1..n collected, in fixed point.
ExactSumOfTasks(n) ==
    IF n = 0 THEN 0 ELSE ExactSum(task[n].items) + ExactSumOfTasks(n - 1)

\* Every item of every partition's result is a number.
AllNumbers == \A r \in Launched : \A i \in DOMAIN task[r].items : IsNumber(task[r].items[i])

\* parallelized_cross_partition_query has returned.
ParReturned == parallel_result # NoResult

\* GROUP BY occurs in q, in any case.
ContainsGroupBy(q) ==
    \E i \in 1..Len(q) :
        /\ WordBoundary(q, i)
        /\ LitAt(q, i, KW_GROUP)
        /\ LET b == SkipSpaces(q, i + Len(KW_GROUP))
           IN  /\ b > i + Len(KW_GROUP)
               /\ LitAt(q, b, KW_BY)
               /\ WordBoundary(q, b + Len(KW_BY))

(***************************************************************************)
(* The properties.                                                         *)
(***************************************************************************)
\* C1: once a partition task has failed, the parallel query returns nothing:
\* gather returns no results, no result is built from the tasks that
\* succeeded, and the main coroutine is waiting in gather or has failed.
C1_AllOrNothing ==
    GatherFailed(task, Len(feed_ranges)) =>
        /\ results = <<>>
        /\ parallel_result = NoResult
        /\ pc \in {"par_gather", "failed", "exit_error", "stopped_error"}

\* C1's case: the run has failed, one task having failed after another had
\* returned items.
C1_Witness ==
    /\ pc = "failed"
    /\ \E r \in Launched : task[r].st = "failed"
    /\ \E r \in Launched : task[r].st = "done" /\ task[r].items # <<>>

\* C2: for an aggregate query whose partitions yield only numbers, the
\* parallel result is the scalar equal to the sum of all of them.
C2_AggregateMergeIsSum ==
    (ParReturned /\ par_aggregate /\ AllNumbers) =>
        /\ parallel_result.kind = "int"
        /\ parallel_result.val * Scale = ExactSumOfTasks(Len(feed_ranges))

\* C3: for a plain query the parallel result is a list holding every item of
\* every partition exactly as often as the partitions hold it, each
\* partition's items in that partition's order.
C3_PlainMergeIsConcatenation ==
    (ParReturned /\ ~par_aggregate) =>
        /\ parallel_result.kind = "list"
        /\ Len(parallel_result.items) = ItemsInTasks(Len(feed_ranges))
        /\ \A x \in RangeItems :
              Count(parallel_result.items, x) = CountInTasks(Len(feed_ranges), x)
        /\ \A r \in Launched : IsSubseq(task[r].items, parallel_result.items)

\* C3's case: a plain result merged from two partitions that both hold
\* items, one of them two different items.
C3_Witness ==
    /\ ParReturned
    /\ ~par_aggregate
    /\ Len(feed_ranges) = 2
    /\ task[1].items # <<>>
    /\ Len(task[2].items) = 2
    /\ task[2].items[1] # task[2].items[2]

\* C4: while the merge runs every launched task has completed, no task
\* changes during the merge, and no step that changes a task changes the
\* merged result.
C4_JoinBeforeMerge ==
    /\ [](pc = "par_merge" => AllTasksDone)
    /\ [][pc = "par_merge" => task' = task]_vars
    /\ [][task' # task => (total' = total /\ all_items' = all_items)]_vars

\* C4's case: the merge of two partitions' results, one partition merged.
C4_Witness ==
    /\ pc = "par_merge"
    /\ Len(feed_ranges) = 2
    /\ merge_i = 1
    /\ task[1].items # <<>>
    /\ task[2].items # <<>>

\* C5: whenever the parallel path has begun (enumerating, timing, or with a
\* task launched) the whole-store stream has been drained and is closed, and
\* no whole-store stream is open while a partition task runs.
C5_PathsDoNotOverlap ==
    LET parallelBegun ==
            \/ pc = "par_enum"
            \/ feed_ranges # <<>>
            \/ par_timer # "idle"
            \/ \E r \in 1..MaxRanges : task[r].st # "idle"
    IN  /\ parallelBegun => (~whole_open /\ std_timer = "stopped")
        /\ ~(whole_open /\ \E r \in 1..MaxRanges : task[r].st = "running")
        /\ whole_open => pc = "std_query"

\* C5's case: a partition task is running after the whole-store query
\* delivered items.
C5_Witness ==
    /\ std_items # <<>>
    /\ \E r \in Launched : task[r].st = "running" /\ task[r].items # <<>>

\* The store answered as one that is not modified and whose ranges partition
\* it: every range-scoped aggregate yielded one number, and the whole-store
\* aggregate yielded their sum.
ConsistentAggregateStore ==
    /\ \A r \in Launched : Len(task[r].items) = 1 /\ IsNumber(task[r].items[1])
    /\ std_items = <<Num(ExactSumOfTasks(Len(feed_ranges)))>>

\* C6: for an aggregate query on a consistent store the report finds the
\* sequential and the parallel result equal.
C6_AggregateAgreement ==
    (pc = "done" /\ aggregate /\ ConsistentAggregateStore) =>
        results_match = "match"

\* The whole-store stream yielded exactly the items of the range-scoped
\* streams, each as often.
ConsistentPlainStore ==
    /\ \A i \in DOMAIN std_items : std_items[i] \in RangeItems
    /\ \A x \in RangeItems :
          Count(std_items, x) = CountInTasks(Len(feed_ranges), x)

\* The greatest number the tasks collected as their first item.
GreatestOfTasks ==
    CHOOSE v \in {task[r].items[1].val : r \in Launched} :
        \A r \in Launched : task[r].items[1].val <= v

\* The store answered a MAX as one that is not modified and whose ranges
\* partition it: every range yielded its greatest number, and the whole
\* store the greatest of them.
ConsistentMaxStore ==
    /\ Launched # {}
    /\ \A r \in Launched : Len(task[r].items) = 1 /\ IsNumber(task[r].items[1])
    /\ std_items = <<Num(GreatestOfTasks)>>

\* The store answered the query of the run as one that is not modified and
\* whose ranges partition it.
ConsistentStore ==
    IF query = Q_MAX THEN ConsistentMaxStore ELSE ConsistentPlainStore

\* C7 as claimed: for every query classified plain, on a consistent store,
\* the two results are lists, equal as multisets.
C7_PlainAgreementAnyQuery ==
    (pc = "done" /\ ~aggregate /\ ConsistentStore) =>
        /\ standard_result.kind = "list"
        /\ parallel_result.kind = "list"
        /\ SameBag(standard_result.items, parallel_result.items)

\* C7 as amended: for a query classified plain whose whole-store stream
\* yields exactly the items of its range-scoped streams, the two results are
\* lists, equal as multisets.
C7_PlainAgreement ==
    (pc = "done" /\ ~aggregate /\ ConsistentPlainStore) =>
        /\ standard_result.kind = "list"
        /\ parallel_result.kind = "list"
        /\ SameBag(standard_result.items, parallel_result.items)

\* C7's case: two partitions with an item each, which the whole-store query
\* delivered in the other order.
C7_Witness ==
    /\ pc = "done"
    /\ ~aggregate
    /\ ConsistentPlainStore
    /\ Len(feed_ranges) = 2
    /\ Len(task[1].items) = 1
    /\ Len(task[2].items) = 1
    /\ standard_result.items # parallel_result.items

\* C8: a query is classified Aggregate exactly when it matches the aggregate
\* pattern and contains no GROUP BY.
C8_Classifier ==
    pc = "cq_enum" =>
        (aggregate <=> (is_aggregate_query(query) /\ ~ContainsGroupBy(query)))

\* C9 as claimed: once the parallel timer is stopped the merge has finished.
C9_TimerStopsAfterMerge ==
    par_timer = "stopped" => (ParReturned \/ (pc = "par_merge" /\ merge_i = Len(results)))

\* C9 as amended: the parallel timer is stopped after every partition task
\* has completed and before the merge starts; no merging happens while it
\* runs.
C9_TimerStopsBeforeMerge ==
    /\ par_timer = "stopped" => AllTasksDone
    /\ par_timer = "running" =>
          /\ pc # "par_merge"
          /\ merge_i = 0
          /\ total = 0
          /\ all_items = <<>>
          /\ ~ParReturned
    /\ (pc = "par_merge" \/ ParReturned) => par_timer = "stopped"

\* C9's case: the timer is stopped and the merge of two non-empty partitions
\* has not merged anything yet.
C9_Witness ==
    /\ par_timer = "stopped"
    /\ pc = "par_merge"
    /\ merge_i = 0
    /\ Len(results) = 2
    /\ results[1] # <<>>
    /\ results[2] # <<>>

\* C10: while the parallel timer runs no enumeration stream is open, and
\* from the timer's start on feed_ranges does not change and no enumeration
\* is begun.
C10_TimerExcludesEnumeration ==
    /\ [](par_timer = "running" => (~enum_open /\ pc \notin {"cq_enum", "par_call", "par_enum"}))
    /\ [][par_timer # "idle" => (feed_ranges' = feed_ranges /\ ~enum_open')]_vars

\* C10's case: the timer runs over the tasks of an enumeration that yielded
\* two ranges.
C10_Witness ==
    /\ par_timer = "running"
    /\ Len(feed_ranges) = 2
    /\ \E r \in Launched : task[r].st = "running" /\ task[r].items # <<>>

\* No partition task has ever been started.
NoTaskStarted == \A r \in 1..MaxRanges : task[r] = IdleTask

\* standard_cross_partition_query has returned.
StdReturned == standard_result # NoResult

C12_NoDivisionByZero ==
    [][pc = "cq_report" => pc' # "failed"]_vars

\* How many range-scoped queries the parallel query started.
TasksStarted == Cardinality({r \in 1..MaxRanges : task[r].st # "idle"})

\* C13: the partition count the report prints, the length of
\* compare_queries' own enumeration, is the number of range-scoped queries
\* the parallel query of the same run started.
C13_ReportedCountIsFanOut ==
    (ParReturned /\ pc \in {"cq_report", "done"}) =>
        Len(cq_feed_ranges) = TasksStarted

\* C14: once __aexit__ has closed the client no partition task is still
\* draining its stream.
C14_NoQueryOutlivesClient ==
    client = "closed" => \A r \in 1..MaxRanges : task[r].st # "running"

\* s is the beginning of t.
IsPrefix(s, t) == Len(s) <= Len(t) /\ SubSeq(t, 1, Len(s)) = s

\* C15: the range-scoped queries started are exactly one per enumerated
\* range; a query once started is never started again (a task that returned
\* or raised stays as it is, and a running task's items only grow); gather
\* is entered once; and the parallel query opens no whole-store stream.
C15_OneQueryPerRange ==
    /\ [](\A r \in 1..MaxRanges :
            task[r].st # "idle" <=> (par_timer # "idle" /\ r \in Launched))
    /\ [][\A r \in 1..MaxRanges :
            task[r].st # "idle" =>
                /\ task'[r].st # "idle"
                /\ task[r].st # "running" => task'[r] = task[r]
                /\ task'[r].st = "running" => IsPrefix(task[r].items, task'[r].items)]_vars
    /\ [][pc = "par_gather" => pc' \in {"par_gather", "par_stop", "failed"}]_vars
    /\ [](~whole_open)

\* C15's case: the query of one range has raised and stays failed while the
\* query of the other, started with it, still delivers items.
C15_Witness ==
    /\ pc = "failed"
    /\ Len(feed_ranges) = 2
    /\ \E r, s \in Launched :
          /\ task[r].st = "failed"
          /\ task[s].st = "running"
          /\ task[s].items # <<>>

\* C16: for a query classified aggregate each of the two query methods, once
\* it has returned, has returned an int, so that the report renders and
\* compares numbers only.
C16_AggregateResultsAreScalars ==
    aggregate =>
        /\ StdReturned => standard_result.kind = "int"
        /\ ParReturned => parallel_result.kind = "int"
        /\ pc \in {"cq_print_std", "cq_report"} => standard_result.kind = "int"

RECURSIVE ConcatOfTasks(_)
\* The items the tasks 1..n collected, task after task in the order of the
\* enumeration.
ConcatOfTasks(n) ==
    IF n = 0 THEN <<>> ELSE ConcatOfTasks(n - 1) \o task[n].items

RECURSIVE TotalOfTasks(_)
\* The integer parts of the numbers the tasks 1..n collected, added up.
TotalOfTasks(n) ==
    IF n = 0 THEN 0 ELSE TotalOfTasks(n - 1) + PartitionTotal(task[n].items)

\* C17: the result of the parallel query is a function of the enumerated
\* ranges and of what each range's stream delivered, whatever the order in
\* which the tasks ran and returned: gather's results are the streams in the
\* order of the enumeration, a plain result is their concatenation in that
\* order and an aggregate result their total.  A step of one task changes no
\* other task's items.
C17_ResultIndependentOfScheduling ==
    /\ [](pc \in {"par_stop", "par_merge"} =>
            results = [r \in Launched |-> task[r].items])
    /\ [](ParReturned =>
            parallel_result =
                IF par_aggregate
                  THEN IntResult(TotalOfTasks(Len(feed_ranges)))
                  ELSE ListResult(ConcatOfTasks(Len(feed_ranges))))
    /\ [][pc = "par_gather" =>
            \A r, s \in Launched :
                (r # s /\ task'[r] # task[r]) => task'[s] = task[s]]_vars

\* C17's case: a plain result of two ranges whose streams differ, so that
\* the order of the two in the result shows.
C17_Witness ==
    /\ ParReturned
    /\ ~par_aggregate
    /\ Len(feed_ranges) = 2
    /\ task[1].items \o task[2].items # task[2].items \o task[1].items
    /\ parallel_result.items = task[1].items \o task[2].items

\* The run has ended with an error.
RunFailed == pc \in {"failed", "exit_error", "stopped_error"}

\* C18: a failure of an enumeration takes the run straight to its failed
\* end with no task started and, when it is compare_queries' enumeration,
\* with neither query issued; once the run has failed no stream is opened,
\* no timer started and no task started; and an enumeration is never begun
\* again: the lists of ranges only grow and a stream of ranges is opened
\* only by the two calls of read_feed_ranges.
C18_EnumerationFailureSurfaced ==
    /\ [][(pc \in {"cq_enum", "par_enum"} /\ pc' = "failed") =>
            (~enum_open' /\ par_timer' = "idle" /\ NoTaskStarted')]_vars
    /\ [][(pc = "cq_enum" /\ pc' = "failed") =>
            (std_timer' = "idle" /\ ~whole_open' /\ std_items' = <<>>
             /\ feed_ranges' = <<>>)]_vars
    /\ [][RunFailed =>
            /\ RunFailed'
            /\ ~enum_open' /\ ~whole_open'
            /\ std_timer' = std_timer /\ par_timer' = par_timer
            /\ std_items' = std_items
            /\ \A r \in 1..MaxRanges : task[r].st = "idle" => task'[r].st = "idle"]_vars
    /\ [][IsPrefix(cq_feed_ranges, cq_feed_ranges')
            /\ IsPrefix(feed_ranges, feed_ranges')]_vars
    /\ [][(enum_open' /\ ~enum_open) => pc \in {"cq_classify", "par_call"}]_vars

\* C18's case: the run has failed in the parallel query's enumeration, after
\* the enumeration had yielded a range and the sequential query had
\* delivered items.
C18_Witness ==
    /\ pc = "failed"
    /\ feed_ranges # <<>>
    /\ par_timer = "idle"
    /\ std_items # <<>>
    /\ NoTaskStarted

\* C19: the step that enters gather starts the query of every enumerated
\* range, and there is never a state in which one range's query has started
\* (or finished) and another's has not started.
C19_UnboundedFanOut ==
    /\ [][(pc = "par_start" /\ pc' = "par_gather") =>
            \A r \in Launched : task'[r] = [st |-> "running", items |-> <<>>]]_vars
    /\ [](\A r, s \in Launched :
            task[r].st # "idle" => task[s].st # "idle")

\* C19's case: the queries of all the ranges an enumeration can yield are in
\* flight at once, each having delivered an item.
C19_Witness ==
    /\ pc = "par_gather"
    /\ Len(feed_ranges) = MaxRanges
    /\ \A r \in Launched : task[r].st = "running" /\ task[r].items # <<>>

\* The run is over: the event loop is closed.
RunStopped == pc \in {"stopped_ok", "stopped_error"}

\* C20: under fair scheduling the run of compare_queries comes to its end,
\* the report printed or an error raised; from there the client is closed;
\* and the run stops for good with the client closed and no task running.
C20_Termination ==
    /\ <>(pc \in {"done", "failed"})
    /\ (pc \in {"done", "failed"}) ~> (client = "closed")
    /\ <>[](/\ RunStopped
            /\ client = "closed"
            /\ \A r \in 1..MaxRanges : task[r].st # "running")

\* C20's case: the run has stopped after an error of one task, the task of
\* the other range cancelled while it was draining its stream.
C20_Witness ==
    /\ pc = "stopped_error"
    /\ client = "closed"
    /\ \E r, s \in Launched :
          task[r].st = "failed" /\ task[s].st = "cancelled"

=============================================================================
